---------------------------- MODULE Spec2Model ----------------------------
(***************************************************************************)
(* A model of the meshage node (src/src/meshage/node.go): the peer         *)
(* registry, the handshake of dial and handleConnection, the session       *)
(* reader and its teardown, the topology engine (union, intersect), the    *)
(* message router and the send plane, with the four mutexes the code       *)
(* takes.  Every node of the mesh runs the same code; a state of the model *)
(* is the state of all nodes plus the goroutines and the messages in       *)
(* flight between them.                                                    *)
(*                                                                         *)
(* Granularity: one action per stretch of code between two blocking points *)
(* (a mutex Lock, a channel operation, socket I/O).  A Go map is a         *)
(* function whose DOMAIN is the set of keys present; reading an absent key *)
(* yields the zero value.  The error stream is taken to be drained by the  *)
(* host, so `n.errors <- err` never blocks; it is recorded in `errors`.    *)
(*                                                                         *)
(* Discovery: the UDP beacons of checkDegree are datagrams that may be     *)
(* lost; a beacon that arrives shows as the solicited dial it causes       *)
(* (SpecDial), and in the other specifications none arrives, so every      *)
(* connection comes from a Dial call of a host.  checkDegree writes        *)
(* nothing that another goroutine reads, so only SpecDegree, which is      *)
(* about it, takes its steps.                                              *)
(*                                                                         *)
(* The state space of all calls at all moments is too large to search, so  *)
(* the module has one specification per kind of scenario, all over the     *)
(* same actions: each says which calls the hosts make and when.  The       *)
(* specifications that start from drawn states (SpecIntersect, SpecUnion,  *)
(* SpecRouter) run one function of one node.                               *)
(***************************************************************************)
EXTENDS Naturals, Sequences, FiniteSets, Bags, TLC

-----------------------------------------------------------------------------
(* Names.  Node are the processes of the mesh; "Z" is a name no process has. *)

Node == {"A", "B", "C"}
Name == Node \cup {"Z"}

\* sort.Strings orders names lexicographically
Rank == [x \in Name |-> CASE x = "A" -> 1 [] x = "B" -> 2 [] x = "C" -> 3 [] OTHER -> 4]

\* Message.MessageType and Message.Command
SET == "SET"
BROADCAST == "BROADCAST"
\* UNION is a TLA+ keyword: the command UNION is written UNION_CMD
UNION_CMD == "UNION"
INTERSECTION == "INTERSECTION"
MESSAGE == "MESSAGE"
ACK == "ACK"
HANDSHAKE == "HANDSHAKE"
HANDSHAKE_SOLICITED == "HANDSHAKE_SOLICITED"

-----------------------------------------------------------------------------
(* Bounds of the model. *)

\* connections opened (Dial calls and solicited dials) in one behaviour
MaxDials == 3
\* Broadcast and Set calls of the hosts in one behaviour
MaxCalls == 2
\* Hangup calls, killed processes and failed links in one behaviour
MaxFaults == 1

-----------------------------------------------------------------------------
(* Go maps and slices. *)

Range(s) == {s[i] : i \in 1..Len(s)}

EmptyMap == [k \in {} |-> <<>>]

\* m[k], the zero value (nil slice) when k is absent
Get(m, k) == IF k \in DOMAIN m THEN m[k] ELSE <<>>

\* m[k] of a map[string]uint64, the zero value 0 when k is absent
GetSeq(m, k) == IF k \in DOMAIN m THEN m[k] ELSE 0

\* m[k] = v
Put(m, k, v) == [x \in (DOMAIN m) \cup {k} |-> IF x = k THEN v ELSE m[x]]

\* delete(m, k)
Delete(m, k) == [x \in (DOMAIN m) \ {k} |-> m[x]]

RECURSIVE InsertSorted(_, _)
InsertSorted(x, s) ==
    IF s = <<>> THEN <<x>>
    ELSE IF Rank[x] <= Rank[Head(s)] THEN <<x>> \o s
    ELSE <<Head(s)>> \o InsertSorted(x, Tail(s))

RECURSIVE SortStrings(_)
SortStrings(s) == IF s = <<>> THEN <<>> ELSE InsertSorted(Head(s), SortStrings(Tail(s)))

\* the nl loop of union: keep an element unless it equals the last one kept
RECURSIVE Uniq(_, _)
Uniq(nl, s) ==
    IF s = <<>> THEN nl
    ELSE IF Len(nl) = 0 THEN Uniq(<<Head(s)>>, Tail(s))
    ELSE IF nl[Len(nl)] # Head(s) THEN Uniq(Append(nl, Head(s)), Tail(s))
    ELSE Uniq(nl, Tail(s))

\* a variant of one bin of union that leaves out sort.Strings
MergeRowUnsorted(old, v) == Uniq(<<>>, old \o v)

\* one bin of union: append, sort, eliminate duplicates
MergeRow(old, v) == Uniq(<<>>, SortStrings(old \o v))

\* a variant of the merge loop of union that appends the rows of m as they are
UnionMergeAppend(mesh0, m) ==
    [k \in (DOMAIN mesh0) \cup (DOMAIN m) |->
        IF k \in DOMAIN m THEN Get(mesh0, k) \o m[k] ELSE mesh0[k]]

\* the merge loop of union over every row of m
UnionMerge(mesh0, m) ==
    [k \in (DOMAIN mesh0) \cup (DOMAIN m) |->
        IF k \in DOMAIN m THEN MergeRow(Get(mesh0, k), m[k]) ELSE mesh0[k]]

\* the conflict scan of union: the names of mesh[self] the registry lacks
RECURSIVE Conflicts(_, _, _, _)
Conflicts(im, row, self, reg) ==
    IF row = <<>> THEN im
    ELSE LET v == Head(row) IN
         IF v \in reg THEN Conflicts(im, Tail(row), self, reg)
         ELSE Conflicts(Put(Put(im, self, Append(Get(im, self), v)),
                            v, Append(Get(im, v), self)),
                        Tail(row), self, reg)

\* a variant of the nv loop that compares x with the first element of v only
RemoveFirstListed(row, v) == SelectSeq(row, LAMBDA x : v = <<>> \/ x # v[1])

\* the nv loop of intersect_locked: row without the elements of v
RemoveAll(row, v) == SelectSeq(row, LAMBDA x : x \notin Range(v))

IsSorted(s) == \A i \in 1..Len(s) : \A j \in 1..Len(s) : i < j => Rank[s[i]] < Rank[s[j]]

-----------------------------------------------------------------------------
(* State. *)

VARIABLES
    alive,              \* alive[n]: the process of node n runs
    degree,             \* Node.degree
    mesh,               \* Node.mesh: adjacency list, name -> list of names
    setSequences,       \* Node.setSequences: name -> sequence id
    broadcastSequences, \* Node.broadcastSequences: name -> sequence id
    routes,             \* Node.routes: destination -> next hop
    clients,            \* Node.clients: peer name -> connection
    receive,            \* Node.receive: what the host has been handed, in order
    ackChan,            \* Node.ackChan: the acks waiting to be read (a bag)
    errors,             \* Node.errors: what was reported on the error stream
    meshLock,           \* Node.meshLock: the goroutine holding it
    clientLock,         \* Node.clientLock
    sequenceLock,       \* Node.sequenceLock
    setLock,            \* Node.setLock
    tasks,              \* the goroutines that are between two blocking points
    isect,              \* the run of intersect_locked in progress at each node
    messagePump,        \* Node.messagePump: decoded messages the router has not taken
    net,                \* sendOne goroutines: messages not yet written to their connection
    bsend,              \* `go n.broadcastSend(m)` goroutines that have not run
    hm,                 \* `go n.handleMessage(m)` goroutines that have not run
    fsend,              \* `go n.setSend(m)` goroutines waiting for setLock
    conns,              \* the TCP connections opened so far, in the order of their dial
    acceptor,           \* the connection handleConnection is handling at each node, or 0
    nCalls,             \* Set and Broadcast calls made so far
    nFaults,            \* Hangup calls, kills and link failures so far
    results,            \* what the calls of the hosts returned
    issued              \* the ids setID and broadcastID handed out, per node and class

nodeVars == <<alive, degree>>
topoVars == <<mesh, setSequences, broadcastSequences>>
lockVars == <<meshLock, clientLock, sequenceLock, setLock>>
chanVars == <<receive, ackChan, errors, messagePump>>
goVars   == <<bsend, hm, fsend>>
connVars == <<conns, acceptor>>
histVars == <<nCalls, nFaults, results, issued>>

vars == <<alive, degree, mesh, setSequences, broadcastSequences, routes, clients,
          receive, ackChan, errors, meshLock, clientLock, sequenceLock, setLock,
          tasks, isect, messagePump, net, bsend, hm, fsend, conns, acceptor,
          nCalls, nFaults, results, issued>>

\* a goroutine is named <<kind, node, number>>; NoTask holds a free mutex
NoTask == <<"none", "-", 0>>
Router(n) == <<"router", n, 0>>
Reader(n, s) == <<"reader", n, s>>
Dialer(n, s) == <<"dial", n, s>>
Caller(n, k) == <<"set", n, k>>
Forwarder(n) == <<"fwd", n, 0>>
Hanger(n, k) == <<"hangup", n, k>>
\* a checkDegree goroutine: k is 0 for the one NewNode starts, and the session
\* of the receiveHandler for one started at the end of a teardown
Checker(n, k) == <<"degree", n, k>>

\* the zero ack; Err is TRUE for a non-nil error
NoAck == [Recipient |-> "-", Err |-> FALSE]

\* the zero Message.  Body holds the adjacency map of a UNION or INTERSECTION,
\* Data the host's payload of a MESSAGE, Ack the ack of an ACK
NoMsg == [MessageType |-> "-", Recipients |-> <<>>, Source |-> "-", CurrentRoute |-> <<>>,
          ID |-> 0, Command |-> "-", Body |-> EmptyMap, Data |-> 0, Ack |-> NoAck]

\* the locals of a goroutine: where it is (pc), where the call it is in returns
\* to (ret), the map it was handed (m), the command it will broadcast (cmd),
\* the peer and connection it serves, its message, and the acks setSend awaits
NoLocals == [pc |-> "-", ret |-> "-", m |-> EmptyMap, cmd |-> "-", peer |-> "-",
             s |-> 0, msg |-> NoMsg, need |-> 0, errs |-> <<>>]

IdleIsect == [on |-> FALSE, m |-> EmptyMap, todo |-> {}, cur |-> "-", st |-> "-",
              held |-> FALSE]

NoHs == [Command |-> "-", Source |-> "-", Body |-> EmptyMap]

Spawn(ts, t, loc) == [x \in (DOMAIN ts) \cup {t} |-> IF x = t THEN loc ELSE ts[x]]
Exit(ts, t) == [x \in (DOMAIN ts) \ {t} |-> ts[x]]
At(t, pc) == t \in DOMAIN tasks /\ tasks[t].pc = pc
NodeOf(t) == t[2]

\* NewNode, for every node of the mesh
Init ==
    /\ alive = [n \in Node |-> TRUE]
    /\ degree = [n \in Node |-> 1]
    /\ mesh = [n \in Node |-> EmptyMap]
    /\ setSequences = [n \in Node |-> [k \in {n} |-> 1]]
    /\ broadcastSequences = [n \in Node |-> [k \in {n} |-> 1]]
    /\ routes = [n \in Node |-> [k \in {} |-> "-"]]
    /\ clients = [n \in Node |-> [k \in {} |-> 0]]
    /\ receive = [n \in Node |-> <<>>]
    /\ ackChan = [n \in Node |-> EmptyBag]
    /\ errors = [n \in Node |-> {}]
    /\ meshLock = [n \in Node |-> NoTask]
    /\ clientLock = [n \in Node |-> NoTask]
    /\ sequenceLock = [n \in Node |-> NoTask]
    /\ setLock = [n \in Node |-> NoTask]
    /\ tasks = [t \in {Router(n) : n \in Node} \cup {Checker(n, 0) : n \in Node} |->
                   [NoLocals EXCEPT !.pc = IF t[1] = "router" THEN "idle" ELSE "cLock"]]
    /\ isect = [n \in Node |-> IdleIsect]
    /\ messagePump = [n \in Node |-> <<>>]
    /\ net = EmptyBag
    /\ bsend = EmptyBag
    /\ hm = EmptyBag
    /\ fsend = EmptyBag
    /\ conns = <<>>
    /\ acceptor = [n \in Node |-> 0]
    /\ nCalls = 0
    /\ nFaults = 0
    /\ results = {}
    /\ issued = [n \in Node |-> [set |-> <<>>, broadcast |-> <<>>]]

-----------------------------------------------------------------------------
(* Dial and handleConnection: the handshake. *)

\* net.Dial in dial: a connection to host h is opened; h's listener will
\* accept it.  sol is dial's `solicited` argument.
DialConnect(n, h, sol) ==
    /\ alive[n] /\ alive[h]
    /\ Len(conns) < MaxDials
    /\ conns' = Append(conns, [dialer |-> n, host |-> h, sol |-> sol, open |-> TRUE,
                               stage |-> "syn", hs |-> NoHs, result |-> "-"])
    /\ UNCHANGED <<nodeVars, topoVars, routes, clients, lockVars, chanVars, tasks, isect,
                   net, goVars, acceptor, histVars>>

\* connectionListener accepts one connection and handleConnection sends its
\* handshake: the command from len(n.clients) and n.degree, the body n.mesh,
\* both read without a lock.  It then waits in Decode for the dialer's reply.
Accept(h, s) ==
    /\ alive[h] /\ acceptor[h] = 0
    /\ s \in 1..Len(conns)
    /\ conns[s].host = h /\ conns[s].stage = "syn" /\ conns[s].open
    /\ LET command == IF Cardinality(DOMAIN clients[h]) < degree[h]
                      THEN HANDSHAKE_SOLICITED ELSE HANDSHAKE
       IN conns' = [conns EXCEPT ![s].stage = "hs",
                                 ![s].hs = [Command |-> command, Source |-> h,
                                            Body |-> mesh[h]]]
    /\ acceptor' = [acceptor EXCEPT ![h] = s]
    /\ UNCHANGED <<nodeVars, topoVars, routes, clients, lockVars, chanVars, tasks, isect,
                   net, goVars, histVars>>

\* a variant of dial's decision without the test of n.clients
DialVerdictNoDup(n, hs, sol) ==
    IF hs.Source = n THEN "self"
    ELSE IF hs.Command = HANDSHAKE /\ sol THEN "unsolicited"
    ELSE "ok"

\* what dial decides once it has decoded the handshake: "self", "dup",
\* "unsolicited", or "ok"
DialVerdict(n, hs, sol) ==
    IF hs.Source = n THEN "self"
    ELSE IF hs.Source \in DOMAIN clients[n] THEN "dup"
    ELSE IF hs.Command = HANDSHAKE /\ sol THEN "unsolicited"
    ELSE "ok"

\* dial, from the decoded handshake to the ACK it writes: the three
\* rejections close the connection (the acceptor's Decode then fails with EOF
\* and handleConnection returns); otherwise the ACK is sent.  n.clients is
\* read without clientLock.
DialCheck(s) ==
    /\ s \in 1..Len(conns)
    /\ conns[s].stage = "hs" /\ conns[s].open
    /\ LET n == conns[s].dialer
           v == DialVerdict(n, conns[s].hs, conns[s].sol)
       IN /\ alive[n]
          /\ IF v = "ok"
             THEN /\ conns' = [conns EXCEPT ![s].stage = "acked"]
                  /\ UNCHANGED acceptor
             ELSE /\ conns' = [conns EXCEPT ![s].stage = "rejected", ![s].open = FALSE,
                                            ![s].result = v]
                  /\ acceptor' = [acceptor EXCEPT ![conns[s].host] = 0]
    /\ UNCHANGED <<nodeVars, topoVars, routes, clients, lockVars, chanVars, tasks, isect,
                   net, goVars, histVars>>

\* the mesh dial hands to union: the peer's, plus the new edge on both rows
DialMesh(n, hs) ==
    LET m1 == Put(hs.Body, n, Append(Get(hs.Body, n), hs.Source))
    IN Put(m1, hs.Source, Append(Get(m1, hs.Source), n))

\* dial adds the client to n.clients under clientLock and starts its
\* receiveHandler; dial goes on to union(mesh) and the UNION broadcast
DialInstall(s) ==
    /\ s \in 1..Len(conns)
    /\ conns[s].stage = "acked"
    /\ LET n == conns[s].dialer
           hs == conns[s].hs
       IN /\ alive[n]
          /\ clientLock[n] = NoTask
          /\ clients' = [clients EXCEPT ![n] = Put(clients[n], hs.Source, s)]
          /\ tasks' = Spawn(Spawn(tasks, Reader(n, s),
                                  [NoLocals EXCEPT !.pc = "start", !.peer = hs.Source]),
                            Dialer(n, s),
                            [NoLocals EXCEPT !.pc = "uMesh", !.ret = "bcast",
                                             !.cmd = UNION_CMD, !.m = DialMesh(n, hs),
                                             !.peer = hs.Source, !.s = s])
    /\ conns' = [conns EXCEPT ![s].stage = "dialed", ![s].result = "ok"]
    /\ UNCHANGED <<nodeVars, topoVars, routes, lockVars, chanVars, isect, net, goVars,
                   acceptor, histVars>>

\* handleConnection decodes the dialer's reply and adds the client under
\* clientLock, whatever n.clients already holds for that name
AcceptInstall(h) ==
    /\ alive[h] /\ acceptor[h] # 0
    /\ conns[acceptor[h]].stage \in {"acked", "dialed"}
    /\ clientLock[h] = NoTask
    /\ LET s == acceptor[h]
           src == conns[s].dialer
       IN /\ clients' = [clients EXCEPT ![h] = Put(clients[h], src, s)]
          /\ tasks' = Spawn(tasks, Reader(h, s),
                            [NoLocals EXCEPT !.pc = "start", !.peer = src])
    /\ acceptor' = [acceptor EXCEPT ![h] = 0]
    /\ UNCHANGED <<nodeVars, topoVars, routes, lockVars, chanVars, isect, net, goVars,
                   conns, histVars>>

-----------------------------------------------------------------------------
(* A process that stops: kill -9, or a panic. *)

BagFilter(b, P(_)) == [x \in {y \in DOMAIN b : P(y)} |-> b[x]]

\* what the death of node n leaves of each variable
DeadConns(n) ==
    [s \in 1..Len(conns) |->
        IF n \in {conns[s].dialer, conns[s].host}
        THEN [conns[s] EXCEPT !.open = FALSE,
                 !.stage = IF @ \in {"syn", "hs"} THEN "dead" ELSE @]
        ELSE conns[s]]
DeadAcceptor(n) ==
    [h \in Node |->
        IF h = n THEN 0
        ELSE IF acceptor[h] # 0 /\ conns[acceptor[h]].dialer = n
                /\ conns[acceptor[h]].stage = "hs" THEN 0
        ELSE acceptor[h]]
DeadTasks(n) == [t \in {x \in DOMAIN tasks : NodeOf(x) # n} |-> tasks[t]]
DeadNet(n) == BagFilter(net, LAMBDA x : x.from # n /\ x.to # n)

-----------------------------------------------------------------------------
(* receiveHandler: the session reader, Hangup, and the teardown. *)

\* `c := n.clients[client]`, read without a lock when the goroutine starts: the
\* reader serves whatever connection the registry holds for the name now.  With
\* no entry c is the zero client, c.dec is nil and Decode panics: the process dies.
ReaderStart(t) ==
    /\ At(t, "start") /\ alive[NodeOf(t)]
    /\ LET n == NodeOf(t)
           peer == tasks[t].peer
       IN IF peer \in DOMAIN clients[n]
          THEN /\ tasks' = [tasks EXCEPT ![t].pc = "loop", ![t].s = clients[n][peer]]
               /\ UNCHANGED <<alive, conns, acceptor, net, isect, messagePump>>
          ELSE /\ alive' = [alive EXCEPT ![n] = FALSE]
               /\ conns' = DeadConns(n)
               /\ acceptor' = DeadAcceptor(n)
               /\ tasks' = DeadTasks(n)
               /\ net' = DeadNet(n)
               /\ isect' = [isect EXCEPT ![n] = IdleIsect]
               /\ messagePump' = [messagePump EXCEPT ![n] = <<>>]
    /\ UNCHANGED <<degree, topoVars, routes, clients, lockVars, receive, ackChan, errors,
                   goVars, histVars>>

\* a sendOne goroutine encodes its message on the connection (a UNION of dial
\* carries n.mesh itself, so what is encoded is the sender's mesh as it is
\* now), the peer's reader decodes it and puts it on messagePump
Recv(t, x) ==
    /\ At(t, "loop") /\ alive[NodeOf(t)]
    /\ BagIn(x, net)
    /\ x.to = NodeOf(t) /\ x.s = tasks[t].s /\ conns[x.s].open
    /\ LET msg == IF x.live THEN [x.msg EXCEPT !.Body = mesh[x.from]] ELSE x.msg
       IN messagePump' = [messagePump EXCEPT ![x.to] = Append(@, msg)]
    /\ net' = net (-) SetToBag({x})
    /\ UNCHANGED <<nodeVars, topoVars, routes, clients, lockVars, receive, ackChan, errors,
                   tasks, isect, goVars, connVars, histVars>>

\* Decode fails on a closed connection: the decoder goroutine signals
\* c.hangup and the select loop is left
ReaderEOF(t) ==
    /\ At(t, "loop") /\ alive[NodeOf(t)]
    /\ ~conns[tasks[t].s].open
    /\ tasks' = [tasks EXCEPT ![t].pc = "tdClient"]
    /\ UNCHANGED <<nodeVars, topoVars, routes, clients, lockVars, chanVars, isect, net,
                   goVars, connVars, histVars>>

\* Hangup, as call number k of the host: under clientLock, look the client up
\* and send on its hangup channel.  The send blocks, clientLock held, until a
\* select loop receives it.
Hangup(n, peer, k) ==
    /\ alive[n]
    /\ clientLock[n] = NoTask
    /\ IF peer \in DOMAIN clients[n]
       THEN /\ clientLock' = [clientLock EXCEPT ![n] = Hanger(n, k)]
            /\ tasks' = Spawn(tasks, Hanger(n, k),
                              [NoLocals EXCEPT !.pc = "hsend", !.peer = peer,
                                               !.s = clients[n][peer]])
            /\ UNCHANGED results
       ELSE /\ results' = results \cup {[op |-> "Hangup", n |-> n, k |-> k,
                                         val |-> <<"no such client">>]}
            /\ UNCHANGED <<clientLock, tasks>>
    /\ UNCHANGED <<nodeVars, topoVars, routes, clients, meshLock, sequenceLock, setLock,
                   chanVars, isect, net, goVars, connVars, issued>>

\* a Hangup call of the host, counted with the faults of the run
HangupCall(n, peer) ==
    /\ nFaults < MaxFaults
    /\ nFaults' = nFaults + 1
    /\ Hangup(n, peer, nFaults + 1)
    /\ UNCHANGED nCalls

\* the select loop receives from c.hangup what Hangup sent: Hangup returns nil
\* and releases clientLock, the loop is left
ReaderHungUp(t, h) ==
    /\ At(t, "loop") /\ At(h, "hsend") /\ alive[NodeOf(t)]
    /\ NodeOf(h) = NodeOf(t) /\ tasks[h].s = tasks[t].s
    /\ tasks' = Exit([tasks EXCEPT ![t].pc = "tdClient"], h)
    /\ clientLock' = [clientLock EXCEPT ![NodeOf(t)] = NoTask]
    /\ results' = results \cup {[op |-> "Hangup", n |-> NodeOf(h), k |-> h[3],
                                 val |-> <<>>]}
    /\ UNCHANGED <<nodeVars, topoVars, routes, clients, meshLock, sequenceLock, setLock,
                   chanVars, isect, net, goVars, connVars, nCalls, nFaults, issued>>

\* the one-edge map of the teardown
EdgeMap(n, peer) == Put(Put(EmptyMap, n, <<peer>>), peer, <<n>>)

\* after the loop: delete(n.clients, client) under clientLock; next is
\* n.intersect(mesh) and the INTERSECTION broadcast
TdClient(t) ==
    /\ At(t, "tdClient") /\ alive[NodeOf(t)]
    /\ clientLock[NodeOf(t)] = NoTask
    /\ clients' = [clients EXCEPT ![NodeOf(t)] = Delete(@, tasks[t].peer)]
    /\ tasks' = [tasks EXCEPT ![t].pc = "iMesh", ![t].ret = "bcast",
                              ![t].cmd = INTERSECTION,
                              ![t].m = EdgeMap(NodeOf(t), tasks[t].peer)]
    /\ UNCHANGED <<nodeVars, topoVars, routes, lockVars, chanVars, isect, net, goVars,
                   connVars, histVars>>

-----------------------------------------------------------------------------
(* intersect and intersect_locked. *)

\* intersect: n.meshLock.Lock(), then intersect_locked(m) starts
IntersectLockMesh(t) ==
    /\ At(t, "iMesh") /\ alive[NodeOf(t)]
    /\ meshLock[NodeOf(t)] = NoTask
    /\ meshLock' = [meshLock EXCEPT ![NodeOf(t)] = t]
    /\ isect' = [isect EXCEPT ![NodeOf(t)] =
                    [on |-> TRUE, m |-> tasks[t].m, todo |-> DOMAIN tasks[t].m,
                     cur |-> "-", st |-> "row", held |-> FALSE]]
    /\ tasks' = [tasks EXCEPT ![t].pc = "iRun"]
    /\ UNCHANGED <<nodeVars, topoVars, routes, clients, clientLock, sequenceLock, setLock,
                   chanVars, net, goVars, connVars, histVars>>

\* one turn of `for k, v := range m` up to `n.mesh[k] = nv`; the order of the
\* keys of a Go map is not fixed
IsectRow(n, k) ==
    /\ alive[n] /\ isect[n].on /\ isect[n].st = "row"
    /\ k \in isect[n].todo
    /\ LET nv == RemoveAll(Get(mesh[n], k), isect[n].m[k])
       IN /\ mesh' = [mesh EXCEPT ![n] = Put(@, k, nv)]
          /\ isect' = [isect EXCEPT ![n].todo = @ \ {k},
                                    ![n].cur = IF Len(nv) = 0 THEN k ELSE "-",
                                    ![n].st = IF Len(nv) = 0 THEN "del" ELSE "row"]
    /\ UNCHANGED <<nodeVars, setSequences, broadcastSequences, routes, clients, lockVars,
                   chanVars, tasks, net, goVars, connVars, histVars>>

\* `delete(n.mesh, k)` of an emptied row; next is n.sequenceLock.Lock()
IsectDelete(n) ==
    /\ alive[n] /\ isect[n].on /\ isect[n].st = "del"
    /\ mesh' = [mesh EXCEPT ![n] = Delete(@, isect[n].cur)]
    /\ isect' = [isect EXCEPT ![n].st = "lock"]
    /\ UNCHANGED <<nodeVars, setSequences, broadcastSequences, routes, clients, lockVars,
                   chanVars, tasks, net, goVars, connVars, histVars>>

\* n.sequenceLock.Lock() (its Unlock is deferred to the return of
\* intersect_locked) and the two deletes of the sequence entries of k
IsectLock(n) ==
    /\ alive[n] /\ isect[n].on /\ isect[n].st = "lock"
    /\ sequenceLock[n] = NoTask
    /\ sequenceLock' = [sequenceLock EXCEPT ![n] = meshLock[n]]
    /\ setSequences' = [setSequences EXCEPT ![n] = Delete(@, isect[n].cur)]
    /\ broadcastSequences' = [broadcastSequences EXCEPT ![n] = Delete(@, isect[n].cur)]
    /\ isect' = [isect EXCEPT ![n].st = "row", ![n].cur = "-", ![n].held = TRUE]
    /\ UNCHANGED <<nodeVars, mesh, routes, clients, meshLock, clientLock, setLock,
                   chanVars, tasks, net, goVars, connVars, histVars>>

\* the range loop of intersect_locked is over
IsectDone(n) == isect[n].on /\ isect[n].st = "row" /\ isect[n].todo = {}

\* sequenceLock once the deferred Unlock of intersect_locked has run
AfterDefer(n) == IF isect[n].held THEN NoTask ELSE sequenceLock[n]

\* intersect_locked returns (the deferred Unlock runs) and intersect unlocks
\* meshLock
IntersectReturn(t) ==
    /\ At(t, "iRun") /\ alive[NodeOf(t)]
    /\ IsectDone(NodeOf(t))
    /\ sequenceLock' = [sequenceLock EXCEPT ![NodeOf(t)] = AfterDefer(NodeOf(t))]
    /\ meshLock' = [meshLock EXCEPT ![NodeOf(t)] = NoTask]
    /\ isect' = [isect EXCEPT ![NodeOf(t)] = IdleIsect]
    /\ tasks' = [tasks EXCEPT ![t].pc = tasks[t].ret, ![t].ret = "-"]
    /\ UNCHANGED <<nodeVars, topoVars, routes, clients, clientLock, setLock, chanVars,
                   net, goVars, connVars, histVars>>

-----------------------------------------------------------------------------
(* union. *)

\* n.meshLock.Lock() of union
UnionLockMesh(t) ==
    /\ At(t, "uMesh") /\ alive[NodeOf(t)]
    /\ meshLock[NodeOf(t)] = NoTask
    /\ meshLock' = [meshLock EXCEPT ![NodeOf(t)] = t]
    /\ tasks' = [tasks EXCEPT ![t].pc = "uClient"]
    /\ UNCHANGED <<nodeVars, topoVars, routes, clients, clientLock, sequenceLock, setLock,
                   chanVars, isect, net, goVars, connVars, histVars>>

\* n.clientLock.Lock(), the merge, and the scan of mesh[n.name] against
\* n.clients.  Without a conflict union returns and both locks are released;
\* with one, intersect_locked(intersection_mesh) starts, both locks held.
UnionMergeStep(t) ==
    /\ At(t, "uClient") /\ alive[NodeOf(t)]
    /\ clientLock[NodeOf(t)] = NoTask
    /\ LET n == NodeOf(t)
           merged == UnionMerge(mesh[n], tasks[t].m)
           im == Conflicts(EmptyMap, Get(merged, n), n, DOMAIN clients[n])
       IN /\ mesh' = [mesh EXCEPT ![n] = merged]
          /\ IF DOMAIN im = {}
             THEN /\ meshLock' = [meshLock EXCEPT ![n] = NoTask]
                  /\ tasks' = [tasks EXCEPT ![t].pc = tasks[t].ret, ![t].ret = "-"]
                  /\ UNCHANGED <<clientLock, isect>>
             ELSE /\ clientLock' = [clientLock EXCEPT ![n] = t]
                  /\ isect' = [isect EXCEPT ![n] =
                                  [on |-> TRUE, m |-> im, todo |-> DOMAIN im,
                                   cur |-> "-", st |-> "row", held |-> FALSE]]
                  /\ tasks' = [tasks EXCEPT ![t].pc = "uIsect", ![t].m = im]
                  /\ UNCHANGED meshLock
    /\ UNCHANGED <<nodeVars, setSequences, broadcastSequences, routes, clients,
                   sequenceLock, setLock, chanVars, net, goVars, connVars, histVars>>

\* a BROADCAST message of node n
Bcast(n, id, cmd, body, data) ==
    [NoMsg EXCEPT !.MessageType = BROADCAST, !.Source = n, !.CurrentRoute = <<n>>,
                  !.ID = id, !.Command = cmd, !.Body = body, !.Data = data]

\* broadcastID / setID: the id returned and the counter afterwards
NextID(seqs, n) == GetSeq(seqs, n)
Bumped(seqs, n) == Put(seqs, n, GetSeq(seqs, n) + 1)

\* union found conflicts: intersect_locked has returned, the INTERSECTION
\* message takes its id from broadcastID; next is n.Send(u), which needs
\* clientLock
UnionConflict(t) ==
    /\ At(t, "uIsect") /\ alive[NodeOf(t)]
    /\ IsectDone(NodeOf(t))
    /\ AfterDefer(NodeOf(t)) = NoTask
    /\ LET n == NodeOf(t)
           id == NextID(broadcastSequences[n], n)
       IN /\ broadcastSequences' = [broadcastSequences EXCEPT ![n] = Bumped(@, n)]
          /\ issued' = [issued EXCEPT ![n].broadcast = Append(@, id)]
          /\ tasks' = [tasks EXCEPT ![t].pc = "uSend",
                                    ![t].msg = Bcast(n, id, INTERSECTION, tasks[t].m, 0)]
          /\ sequenceLock' = [sequenceLock EXCEPT ![n] = NoTask]
          /\ isect' = [isect EXCEPT ![n] = IdleIsect]
    /\ UNCHANGED <<nodeVars, mesh, setSequences, routes, clients, meshLock, clientLock,
                   setLock, chanVars, net, goVars, connVars, nCalls, nFaults, results>>

-----------------------------------------------------------------------------
(* The send plane: broadcastSend, sendOne. *)

\* broadcastSend: one sendOne goroutine per client of n.  live marks a body
\* that is n.mesh itself, encoded only when the goroutine runs.
Copies(n, msg, live) ==
    SetToBag({[s |-> clients[n][k], from |-> n, to |-> k, msg |-> msg, live |-> live] :
              k \in {c \in DOMAIN clients[n] : conns[clients[n][c]].open}})

\* sendOne reports the error of a send on a closed connection
SendErrors(n) ==
    IF \E c \in DOMAIN clients[n] : ~conns[clients[n][c]].open THEN {"send"} ELSE {}

\* n.Send(u) of a broadcast by the code itself.  At "bcast" the caller is dial
\* (a UNION whose body is n.mesh) or the teardown of receiveHandler (an
\* INTERSECTION of its one-edge map): the id comes from broadcastID, then
\* broadcastSend takes clientLock; dial is then done, and receiveHandler ends
\* with `go n.checkDegree()`.  At "uSend" the caller is union, which holds
\* meshLock and clientLock and has its message.
SendStep(t) ==
    /\ t \in DOMAIN tasks /\ tasks[t].pc \in {"bcast", "uSend"}
    /\ alive[NodeOf(t)]
    /\ clientLock[NodeOf(t)] = NoTask
    /\ LET n == NodeOf(t)
           id == NextID(broadcastSequences[n], n)
       IN IF tasks[t].pc = "bcast"
          THEN /\ sequenceLock[n] = NoTask
               /\ broadcastSequences' = [broadcastSequences EXCEPT ![n] = Bumped(@, n)]
               /\ issued' = [issued EXCEPT ![n].broadcast = Append(@, id)]
               /\ net' = net (+) Copies(n, Bcast(n, id, tasks[t].cmd,
                                   IF tasks[t].cmd = UNION_CMD THEN EmptyMap
                                   ELSE tasks[t].m, 0),
                                   tasks[t].cmd = UNION_CMD)
               /\ tasks' = IF t[1] = "reader"
                            THEN Spawn(Exit(tasks, t), Checker(n, t[3]),
                                       [NoLocals EXCEPT !.pc = "cLock"])
                            ELSE Exit(tasks, t)
               /\ UNCHANGED <<meshLock, clientLock>>
          ELSE /\ net' = net (+) Copies(n, tasks[t].msg, FALSE)
               /\ meshLock' = [meshLock EXCEPT ![n] = NoTask]
               /\ clientLock' = [clientLock EXCEPT ![n] = NoTask]
               /\ tasks' = [tasks EXCEPT ![t].pc = tasks[t].ret, ![t].ret = "-"]
               /\ UNCHANGED <<broadcastSequences, issued>>
    /\ errors' = [errors EXCEPT ![NodeOf(t)] = @ \cup SendErrors(NodeOf(t))]
    /\ UNCHANGED <<nodeVars, mesh, setSequences, routes, clients, sequenceLock,
                   setLock, receive, ackChan, messagePump, isect, goVars, connVars,
                   nCalls, nFaults, results>>

\* a `go n.broadcastSend(m)` of the router runs
ForwardSend(n, b) ==
    /\ alive[n] /\ BagIn(b, bsend) /\ b.n = n
    /\ clientLock[n] = NoTask
    /\ net' = net (+) Copies(n, b.msg, FALSE)
    /\ bsend' = bsend (-) SetToBag({b})
    /\ errors' = [errors EXCEPT ![n] = @ \cup SendErrors(n)]
    /\ UNCHANGED <<nodeVars, topoVars, routes, clients, lockVars, receive, ackChan,
                   messagePump, tasks, isect, hm, fsend, connVars, histVars>>

\* the nodes n has a session with that is installed at both ends
Linked(n) ==
    {p \in Node : /\ alive[p] /\ p \in DOMAIN clients[n] /\ n \in DOMAIN clients[p]
                  /\ clients[n][p] = clients[p][n] /\ conns[clients[n][p]].open}

\* the nodes of the mesh n is connected to, in the order of their names
Component(n) ==
    LET c1 == Linked(n)
        c2 == c1 \cup UNION {Linked(p) : p \in c1}
    IN SelectSeq(<<"A", "B", "C">>, LAMBDA x : x \in c2 \ {n})

\* Broadcast: the id from broadcastID, then broadcastSend.  The call is
\* recorded with the nodes the mesh connects n to when it is made.
Broadcast(n) ==
    /\ alive[n] /\ nCalls < MaxCalls
    /\ sequenceLock[n] = NoTask /\ clientLock[n] = NoTask
    /\ LET id == NextID(broadcastSequences[n], n)
       IN /\ broadcastSequences' = [broadcastSequences EXCEPT ![n] = Bumped(@, n)]
          /\ issued' = [issued EXCEPT ![n].broadcast = Append(@, id)]
          /\ net' = net (+) Copies(n, Bcast(n, id, MESSAGE, EmptyMap, nCalls + 1), FALSE)
    /\ nCalls' = nCalls + 1
    /\ results' = results \cup {[op |-> "Broadcast", n |-> n, k |-> nCalls + 1,
                                 val |-> Component(n)]}
    /\ errors' = [errors EXCEPT ![n] = @ \cup SendErrors(n)]
    /\ UNCHANGED <<nodeVars, mesh, setSequences, routes, clients, lockVars, receive,
                   ackChan, messagePump, tasks, isect, goVars, connVars, nFaults>>

-----------------------------------------------------------------------------
(* messageHandler (the router) and handleMessage. *)

Count(x, sq) == Cardinality({i \in 1..Len(sq) : sq[i] = x})

RECURSIVE SeqToBag(_)
SeqToBag(sq) == IF sq = <<>> THEN EmptyBag ELSE SetToBag({Head(sq)}) (+) SeqToBag(Tail(sq))

\* a variant of the router's test that also takes the last id seen as new
FreshOrSame(seqs, m) == GetSeq(seqs, m.Source) <= m.ID

\* whether the router takes m as new: its id is above the last one seen
Fresh(seqs, m) == GetSeq(seqs, m.Source) < m.ID

\* m.CurrentRoute = append(m.CurrentRoute, n.name)
Routed(m, n) == [m EXCEPT !.CurrentRoute = Append(@, n)]

\* one turn of the loop of messageHandler: take a message from messagePump.
\* A SET that is new moves setSequences under sequenceLock, starts one
\* handleMessage goroutine per occurrence of n.name among the recipients and a
\* setSend goroutine for the others.  A BROADCAST that is new moves
\* broadcastSequences, starts a broadcastSend goroutine and calls handleMessage
\* itself: a MESSAGE goes to n.receive, an ACK to n.ackChan, a UNION or an
\* INTERSECTION makes the router call union or intersect.
Route(n) ==
    /\ alive[n] /\ At(Router(n), "idle")
    /\ messagePump[n] # <<>>
    /\ messagePump' = [messagePump EXCEPT ![n] = Tail(@)]
    /\ LET m == Head(messagePump[n])
           m2 == Routed(m, n)
           others == SelectSeq(m.Recipients, LAMBDA i : i # n)
       IN IF m.MessageType = SET
          THEN IF Fresh(setSequences[n], m)
               THEN /\ sequenceLock[n] = NoTask
                    /\ setSequences' = [setSequences EXCEPT ![n] = Put(@, m.Source, m.ID)]
                    /\ hm' = hm (+) [x \in {[n |-> n, msg |-> m2]
                                           : i \in 1..Count(n, m.Recipients)}
                                     |-> Count(n, m.Recipients)]
                    /\ fsend' = fsend (+) SetToBag({[n |-> n,
                                           msg |-> [m2 EXCEPT !.Recipients = others]]})
                    /\ UNCHANGED <<broadcastSequences, bsend, receive, ackChan, tasks>>
               ELSE UNCHANGED <<setSequences, broadcastSequences, hm, fsend, bsend,
                                receive, ackChan, tasks>>
          ELSE IF Fresh(broadcastSequences[n], m)
               THEN /\ sequenceLock[n] = NoTask
                    /\ broadcastSequences' =
                           [broadcastSequences EXCEPT ![n] = Put(@, m.Source, m.ID)]
                    /\ bsend' = bsend (+) SetToBag({[n |-> n, msg |-> m2]})
                    /\ receive' = [receive EXCEPT ![n] =
                                      IF m.Command = MESSAGE THEN Append(@, m2) ELSE @]
                    /\ ackChan' = [ackChan EXCEPT ![n] =
                                      IF m.Command = ACK THEN @ (+) SetToBag({m.Ack})
                                      ELSE @]
                    /\ tasks' = [tasks EXCEPT ![Router(n)] =
                                    CASE m.Command = UNION_CMD ->
                                           [@ EXCEPT !.pc = "uMesh", !.ret = "idle",
                                                     !.m = m.Body]
                                      [] m.Command = INTERSECTION ->
                                           [@ EXCEPT !.pc = "iMesh", !.ret = "idle",
                                                     !.m = m.Body]
                                      [] OTHER -> @]
                    /\ UNCHANGED <<setSequences, hm, fsend>>
               ELSE UNCHANGED <<setSequences, broadcastSequences, hm, fsend, bsend,
                                receive, ackChan, tasks>>
    /\ UNCHANGED <<nodeVars, mesh, routes, clients, lockVars, errors, isect, net,
                   connVars, histVars>>

\* a `go n.handleMessage(m)` of the router runs: the MESSAGE of a SET goes to
\* n.receive (Set sends no other command).  No ack is built or sent.
HandleMsg(n, x) ==
    /\ alive[n] /\ BagIn(x, hm) /\ x.n = n
    /\ hm' = hm (-) SetToBag({x})
    /\ receive' = [receive EXCEPT ![n] =
                      IF x.msg.Command = MESSAGE THEN Append(@, x.msg) ELSE @]
    /\ UNCHANGED <<nodeVars, topoVars, routes, clients, lockVars, ackChan, errors,
                   messagePump, tasks, isect, net, bsend, fsend, connVars, histVars>>

-----------------------------------------------------------------------------
(* Route derivation (updateRoute) and setSend. *)

Adj(m, k) == Range(Get(m, k))

\* larger than any distance in the mesh
Unreachable == 99

\* breadth-first search over the adjacency map: hops from the frontier to dest
RECURSIVE DistTo(_, _, _, _, _)
DistTo(m, frontier, seen, dest, d) ==
    IF dest \in frontier THEN d
    ELSE LET nxt == (UNION {Adj(m, k) : k \in frontier}) \ seen
         IN IF nxt = {} THEN Unreachable
            ELSE DistTo(m, nxt, seen \cup nxt, dest, d + 1)

\* the neighbours of self on a shortest path to dest
FirstHops(m, self, dest) ==
    {h \in Adj(m, self) :
        DistTo(m, {h}, {self, h}, dest, 1) = DistTo(m, {self}, {self}, dest, 0)
        /\ DistTo(m, {self}, {self}, dest, 0) < Unreachable}

\* updateRoute(v): n.routes[v] becomes the first hop of a shortest path, the
\* lowest name among equals; no entry when v is not reachable
UpdateRoute(rt, m, self, v) ==
    LET hops == FirstHops(m, self, v)
    IN IF v = self \/ hops = {} THEN rt
       ELSE Put(rt, v, CHOOSE h \in hops : \A g \in hops : Rank[h] <= Rank[g])

\* the first loop of setSend over m.Recipients: the routes as updated, the
\* recipients grouped by route, and the recipients without a route
RECURSIVE RouteAll(_, _, _, _)
RouteAll(acc, recips, m, self) ==
    IF recips = <<>> THEN acc
    ELSE LET v == Head(recips)
             rt == IF v \in DOMAIN acc.rt THEN acc.rt ELSE UpdateRoute(acc.rt, m, self, v)
         IN IF v \in DOMAIN rt
            THEN RouteAll([acc EXCEPT !.rt = rt,
                              !.slices = Put(@, rt[v], Append(Get(@, rt[v]), v))],
                          Tail(recips), m, self)
            ELSE RouteAll([acc EXCEPT !.noroute = Append(@, v)], Tail(recips), m, self)

\* a SET message of node n
SetMsg(n, id, recips, data) ==
    [NoMsg EXCEPT !.MessageType = SET, !.Source = n, !.Recipients = recips,
                  !.CurrentRoute = <<n>>, !.ID = id, !.Command = MESSAGE, !.Data = data]

\* Set: the id from setID; next is setSend, which needs setLock.  The call
\* is recorded with its recipients.
SetCall(n, recips) ==
    /\ alive[n] /\ nCalls < MaxCalls
    /\ sequenceLock[n] = NoTask
    /\ LET id == NextID(setSequences[n], n)
       IN /\ setSequences' = [setSequences EXCEPT ![n] = Bumped(@, n)]
          /\ issued' = [issued EXCEPT ![n].set = Append(@, id)]
          /\ tasks' = Spawn(tasks, Caller(n, nCalls + 1),
                            [NoLocals EXCEPT !.pc = "sLock",
                                             !.msg = SetMsg(n, id, recips, nCalls + 1)])
    /\ nCalls' = nCalls + 1
    /\ results' = results \cup {[op |-> "SetCall", n |-> n, k |-> nCalls + 1,
                                 val |-> recips]}
    /\ UNCHANGED <<nodeVars, mesh, broadcastSequences, routes, clients, lockVars, chanVars,
                   isect, net, goVars, connVars, nFaults>>

\* setSend from n.clientLock.Lock() to n.clientLock.Unlock(), for goroutine t,
\* which holds setLock, and message msg: routes looked up, a "no route" error
\* and an error ack per recipient without one, one sendOne per route that has
\* a client.  With recipients to wait for, t keeps setLock and waits on
\* ackChan; with none setSend returns nil and the deferred Unlock runs.
SetSendBody(n, t, msg) ==
    LET r == RouteAll([rt |-> routes[n], slices |-> EmptyMap, noroute |-> <<>>],
                      msg.Recipients, mesh[n], n)
        hops == DOMAIN r.slices
        good == {k \in hops \cap DOMAIN clients[n] : conns[clients[n][k]].open}
        sent == {[s |-> clients[n][k], from |-> n, to |-> k,
                  msg |-> [msg EXCEPT !.Recipients = r.slices[k]], live |-> FALSE]
                 : k \in good}
    IN /\ setLock[n] = t /\ clientLock[n] = NoTask
       /\ routes' = [routes EXCEPT ![n] = r.rt]
       /\ net' = net (+) SetToBag(sent)
       /\ ackChan' = [ackChan EXCEPT ![n] =
              @ (+) SeqToBag([i \in 1..Len(r.noroute) |->
                                 [Recipient |-> r.noroute[i], Err |-> TRUE]])]
       /\ errors' = [errors EXCEPT ![n] = @
              \cup (IF r.noroute # <<>> THEN {"no route to host"} ELSE {})
              \cup (IF hops \ DOMAIN clients[n] # {}
                    THEN {"mismatched client list and topology"} ELSE {})
              \cup (IF (hops \cap DOMAIN clients[n]) \ good # {} THEN {"send"} ELSE {})]
       /\ results' = results \cup
              (IF t[1] = "set"
               THEN {[op |-> "setSend", n |-> n, k |-> t[3],
                      val |-> [sent |-> {<<x.to, x.msg.Recipients>> : x \in sent},
                               noroute |-> r.noroute]]}
                    \cup (IF Len(msg.Recipients) = 0
                          THEN {[op |-> "Set", n |-> n, k |-> t[3], val |-> <<>>]} ELSE {})
               ELSE {})
       /\ IF Len(msg.Recipients) = 0
          THEN /\ tasks' = Exit(tasks, t)
               /\ setLock' = [setLock EXCEPT ![n] = NoTask]
          ELSE /\ tasks' = Spawn(tasks, t, [NoLocals EXCEPT !.pc = "sWait", !.msg = msg,
                                                !.need = Len(msg.Recipients)])
               /\ UNCHANGED setLock

\* n.setLock.Lock() in setSend of a Set call
SetSendStart(t) ==
    /\ At(t, "sLock") /\ alive[NodeOf(t)]
    /\ setLock[NodeOf(t)] = NoTask
    /\ setLock' = [setLock EXCEPT ![NodeOf(t)] = t]
    /\ tasks' = [tasks EXCEPT ![t].pc = "sClient"]
    /\ UNCHANGED <<nodeVars, topoVars, routes, clients, meshLock, clientLock,
                   sequenceLock, chanVars, isect, net, goVars, connVars, histVars>>

\* a `go n.setSend(m)` of the router runs: n.setLock.Lock()
FwdSendStart(n, f) ==
    /\ alive[n] /\ BagIn(f, fsend) /\ f.n = n
    /\ setLock[n] = NoTask
    /\ setLock' = [setLock EXCEPT ![n] = Forwarder(n)]
    /\ tasks' = Spawn(tasks, Forwarder(n), [NoLocals EXCEPT !.pc = "sClient", !.msg = f.msg])
    /\ fsend' = fsend (-) SetToBag({f})
    /\ UNCHANGED <<nodeVars, topoVars, routes, clients, meshLock, clientLock,
                   sequenceLock, chanVars, isect, net, bsend, hm, connVars, histVars>>

\* setSend goes on with setLock held: n.clientLock.Lock(), the routes and the
\* sends, n.clientLock.Unlock()
SetSendRoutes(t) ==
    /\ At(t, "sClient") /\ alive[NodeOf(t)]
    /\ SetSendBody(NodeOf(t), t, tasks[t].msg)
    /\ UNCHANGED <<nodeVars, topoVars, clients, meshLock, clientLock, sequenceLock,
                   receive, messagePump, isect, goVars, connVars, nCalls, nFaults, issued>>

\* `a := <-n.ackChan` in the wait loop of setSend; after the last ack setSend
\* returns (nil, or the error naming the recipients that failed) and the
\* deferred Unlock releases setLock
SetAck(t, a) ==
    /\ At(t, "sWait") /\ alive[NodeOf(t)]
    /\ BagIn(a, ackChan[NodeOf(t)])
    /\ LET n == NodeOf(t)
           errs == IF a.Err THEN Append(tasks[t].errs, a.Recipient) ELSE tasks[t].errs
       IN /\ ackChan' = [ackChan EXCEPT ![n] = @ (-) SetToBag({a})]
          /\ errors' = [errors EXCEPT ![n] = IF a.Err THEN @ \cup {"ack"} ELSE @]
          /\ IF tasks[t].need > 1
             THEN /\ tasks' = [tasks EXCEPT ![t].need = @ - 1, ![t].errs = errs]
                  /\ UNCHANGED <<setLock, results>>
             ELSE /\ tasks' = Exit(tasks, t)
                  /\ setLock' = [setLock EXCEPT ![n] = NoTask]
                  /\ results' = results \cup
                         (IF t[1] = "set"
                          THEN {[op |-> "Set", n |-> n, k |-> t[3], val |-> errs]}
                          ELSE {})
    /\ UNCHANGED <<nodeVars, topoVars, routes, clients, meshLock, clientLock, sequenceLock,
                   receive, messagePump, isect, net, goVars, connVars, nCalls, nFaults,
                   issued>>

-----------------------------------------------------------------------------
(* The four locks, numbered in the order meshLock, clientLock, sequenceLock,
   setLock. *)

\* the locks goroutine t holds
LocksHeld(t) ==
    {i \in 1..4 : <<meshLock, clientLock, sequenceLock, setLock>>[i][NodeOf(t)] = t}

\* the lock whose Lock() is the next statement of goroutine t, if any
LockWanted(t) ==
    IF tasks[t].pc \in {"uMesh", "iMesh"} THEN {1}
    ELSE IF tasks[t].pc \in {"uClient", "tdClient", "uSend", "sClient"} THEN {2}
    ELSE IF tasks[t].pc = "bcast" THEN {3}
    ELSE IF tasks[t].pc \in {"iRun", "uIsect"} /\ isect[NodeOf(t)].st = "lock" THEN {3}
    ELSE IF tasks[t].pc = "sLock" THEN {4}
    ELSE {}

-----------------------------------------------------------------------------
(* checkDegree and SetDegree.  degreeLock is held by the checkDegree goroutine
   that is past its Lock(); its local `backoff` is the field need of the
   goroutine.  The datagram is written to the broadcast address and the sleep
   that follows takes some time, neither is modelled further.  The socket
   calls succeed. *)

\* the largest degree a host sets
MaxDegree == 2

\* `if backoff < 7`: the exponent of the longest sleep
MaxBackoff == 7

\* a checkDegree goroutine of node n holds degreeLock
DegreeLocked(n) ==
    \E t \in DOMAIN tasks :
        t[1] = "degree" /\ NodeOf(t) = n /\ tasks[t].pc \in {"cLoop", "cSleep"}

\* n.degreeLock.Lock() of checkDegree
CheckStart(t) ==
    /\ At(t, "cLock") /\ alive[NodeOf(t)]
    /\ ~DegreeLocked(NodeOf(t))
    /\ tasks' = [tasks EXCEPT ![t].pc = "cLoop", ![t].need = 1]
    /\ UNCHANGED <<nodeVars, topoVars, routes, clients, lockVars, chanVars, isect, net,
                   goVars, connVars, histVars>>

\* the loop test holds: the solicitation "meshage:name" is written, then the
\* goroutine sleeps
CheckSolicit(t) ==
    /\ At(t, "cLoop") /\ alive[NodeOf(t)]
    /\ Cardinality(DOMAIN clients[NodeOf(t)]) < degree[NodeOf(t)]
    /\ tasks' = [tasks EXCEPT ![t].pc = "cSleep"]
    /\ UNCHANGED <<nodeVars, topoVars, routes, clients, lockVars, chanVars, isect, net,
                   goVars, connVars, histVars>>

\* time.Sleep returns, backoff grows up to 7: back to the loop test
CheckWake(t) ==
    /\ At(t, "cSleep") /\ alive[NodeOf(t)]
    /\ tasks' = [tasks EXCEPT ![t].pc = "cLoop",
                              ![t].need = IF @ < MaxBackoff THEN @ + 1 ELSE @]
    /\ UNCHANGED <<nodeVars, topoVars, routes, clients, lockVars, chanVars, isect, net,
                   goVars, connVars, histVars>>

\* the loop test fails: checkDegree returns and the deferred Unlock runs
CheckExit(t) ==
    /\ At(t, "cLoop") /\ alive[NodeOf(t)]
    /\ Cardinality(DOMAIN clients[NodeOf(t)]) >= degree[NodeOf(t)]
    /\ tasks' = Exit(tasks, t)
    /\ UNCHANGED <<nodeVars, topoVars, routes, clients, lockVars, chanVars, isect, net,
                   goVars, connVars, histVars>>

\* SetDegree(d): n.degree = d
SetDegree(n, d) ==
    /\ alive[n] /\ d # degree[n]
    /\ degree' = [degree EXCEPT ![n] = d]
    /\ UNCHANGED <<alive, topoVars, routes, clients, lockVars, chanVars, tasks, isect,
                   net, goVars, connVars, histVars>>

-----------------------------------------------------------------------------
(* Faults: a process is killed, a link fails. *)

\* the process of node n stops: its sockets close, its goroutines are gone
Kill(n) ==
    /\ alive[n] /\ nFaults < MaxFaults
    /\ nFaults' = nFaults + 1
    /\ alive' = [alive EXCEPT ![n] = FALSE]
    /\ conns' = DeadConns(n)
    /\ acceptor' = DeadAcceptor(n)
    /\ tasks' = DeadTasks(n)
    /\ net' = DeadNet(n)
    /\ isect' = [isect EXCEPT ![n] = IdleIsect]
    /\ messagePump' = [messagePump EXCEPT ![n] = <<>>]
    /\ bsend' = BagFilter(bsend, LAMBDA x : x.n # n)
    /\ hm' = BagFilter(hm, LAMBDA x : x.n # n)
    /\ fsend' = BagFilter(fsend, LAMBDA x : x.n # n)
    /\ UNCHANGED <<degree, topoVars, routes, clients, lockVars, receive, ackChan, errors,
                   nCalls, results, issued>>

\* the TCP connection s, installed at both ends, breaks: both decoders fail
LinkFail(s) ==
    /\ nFaults < MaxFaults
    /\ s \in 1..Len(conns)
    /\ conns[s].open /\ conns[s].stage = "dialed" /\ acceptor[conns[s].host] # s
    /\ nFaults' = nFaults + 1
    /\ conns' = [conns EXCEPT ![s].open = FALSE]
    /\ net' = BagFilter(net, LAMBDA x : x.s # s)
    /\ UNCHANGED <<nodeVars, topoVars, routes, clients, lockVars, chanVars, tasks, isect,
                   goVars, acceptor, nCalls, results, issued>>

-----------------------------------------------------------------------------
(* The goroutines of the nodes, by the part of the code they run. *)

\* the handshake, the session reader, the teardown, the topology engine and
\* the flood of the topology broadcasts
TopoStep ==
    \/ \E h \in Node, s \in 1..Len(conns) : Accept(h, s)
    \/ \E s \in 1..Len(conns) : DialCheck(s)
    \/ \E s \in 1..Len(conns) : DialInstall(s)
    \/ \E h \in Node : AcceptInstall(h)
    \/ \E t \in DOMAIN tasks : ReaderStart(t)
    \/ \E t \in DOMAIN tasks : \E x \in DOMAIN net : Recv(t, x)
    \/ \E t \in DOMAIN tasks : UnionLockMesh(t)
    \/ \E t \in DOMAIN tasks : UnionMergeStep(t)
    \/ \E t \in DOMAIN tasks : SendStep(t)
    \/ \E n \in Node : \E b \in DOMAIN bsend : ForwardSend(n, b)
    \/ \E n \in Node : Route(n)

\* the teardown of a session and intersect
TeardownStep ==
    \/ \E t \in DOMAIN tasks : ReaderEOF(t)
    \/ \E t \in DOMAIN tasks : TdClient(t)
    \/ \E t \in DOMAIN tasks : IntersectLockMesh(t)
    \/ \E n \in Node : \E k \in Name : IsectRow(n, k)
    \/ \E n \in Node : IsectDelete(n)
    \/ \E n \in Node : IsectLock(n)

\* the Set path
SetStep ==
    \/ \E n \in Node : \E x \in DOMAIN hm : HandleMsg(n, x)
    \/ \E t \in DOMAIN tasks : SetSendStart(t)
    \/ \E n \in Node : \E f \in DOMAIN fsend : FwdSendStart(n, f)
    \/ \E t \in DOMAIN tasks : SetSendRoutes(t)
    \/ \E t \in DOMAIN tasks : \E a \in DOMAIN ackChan[NodeOf(t)] : SetAck(t, a)

\* no goroutine of a living node has a step to take: what is left are idle
\* routers, readers waiting in their select loop and goroutines that wait for
\* something that no step of the nodes brings
Stable == ~ENABLED (TopoStep \/ TeardownStep \/ SetStep
                    \/ (\E t \in DOMAIN tasks : IntersectReturn(t))
                    \/ (\E t \in DOMAIN tasks : UnionConflict(t))
                    \/ (\E t \in DOMAIN tasks : \E h \in DOMAIN tasks : ReaderHungUp(t, h)))

\* nothing is pending at all: no handshake, no teardown, no goroutine other
\* than the routers and the readers in their loops, no message in flight
Quiet ==
    /\ \A s \in 1..Len(conns) : conns[s].stage \in {"dialed", "rejected", "dead"}
    /\ \A n \in Node : acceptor[n] = 0 /\ messagePump[n] = <<>> /\ ~isect[n].on
    /\ \A t \in DOMAIN tasks : NodeOf(t) \in Node =>
          \/ tasks[t].pc = "idle"
          \/ tasks[t].pc = "loop" /\ conns[tasks[t].s].open
          \/ t[1] = "degree"
    /\ \A x \in DOMAIN net : ~\E t \in DOMAIN tasks :
          At(t, "loop") /\ NodeOf(t) = x.to /\ tasks[t].s = x.s
    /\ bsend = EmptyBag /\ hm = EmptyBag /\ fsend = EmptyBag
    /\ \A n \in Node : meshLock[n] = NoTask /\ clientLock[n] = NoTask
                       /\ sequenceLock[n] = NoTask /\ setLock[n] = NoTask

-----------------------------------------------------------------------------
(* Racing dials: the hosts of A and B dial each other at any moment. *)

\* connections opened in a behaviour of SpecRace
RaceDials == 2

\* the nodes whose hosts dial in a behaviour of SpecRace
RaceNode == {"A", "B"}

RaceNext ==
    \/ TopoStep
    \/ \E n \in RaceNode, h \in RaceNode :
          n # h /\ Len(conns) < RaceDials /\ DialConnect(n, h, FALSE)

SpecRace == Init /\ [][RaceNext]_vars

-----------------------------------------------------------------------------
(* A dial that meets a teardown: a host dials when the mesh is quiet or while
   an intersect is running; a process is killed when the mesh is quiet. *)

\* the dials of the hosts: <<dialer, host>>
FragDial == {<<"A", "B">>, <<"C", "B">>}

\* some node is inside intersect_locked
Tearing == \E n \in Node : isect[n].on

FragNext ==
    \/ TopoStep
    \/ TeardownStep
    \/ \E t \in DOMAIN tasks : IntersectReturn(t)
    \/ \E d \in FragDial :
          /\ Len(conns) < RaceDials /\ (Quiet \/ Tearing)
          /\ DialConnect(d[1], d[2], FALSE)
    \/ \E n \in Node : Quiet /\ Kill(n)

SpecFrag == Init /\ [][FragNext]_vars

-----------------------------------------------------------------------------
(* Broadcasts: the hosts build and change the mesh when it is quiet; they call
   Broadcast when it is quiet or while the sendOne goroutines of an earlier
   Broadcast have not all run. *)

\* the dials of the hosts: <<dialer, host>>
CastDial == {<<"A", "B">>, <<"C", "B">>}

\* a sendOne goroutine with the message of a Broadcast call is pending
Casting == \E x \in DOMAIN net : x.msg.Command = MESSAGE

\* the nodes whose hosts call Broadcast
CastNode == {"A"}

CastNext ==
    \/ TopoStep
    \/ TeardownStep
    \/ \E t \in DOMAIN tasks : IntersectReturn(t)
    \/ \E d \in CastDial : Quiet /\ DialConnect(d[1], d[2], FALSE)
    \/ \E s \in 1..Len(conns) : Quiet /\ LinkFail(s)
    \/ \E n \in CastNode : (Quiet \/ Casting) /\ Broadcast(n)

SpecCast == Init /\ [][CastNext]_vars

-----------------------------------------------------------------------------
(* A link that fails under a broadcast: the hosts build the mesh when it is
   quiet and the host of A calls Broadcast once; a connection of A breaks when
   the mesh is quiet or
   while the router of the caller has its own message in its queue. *)

\* the message of a Broadcast call waits in the messagePump of its caller
Echoing ==
    \E n \in CastNode : \E i \in 1..Len(messagePump[n]) :
        messagePump[n][i].Command = MESSAGE /\ messagePump[n][i].Source = n

EchoNext ==
    \/ TopoStep
    \/ TeardownStep
    \/ \E t \in DOMAIN tasks : IntersectReturn(t)
    \/ \E d \in CastDial : Quiet /\ DialConnect(d[1], d[2], FALSE)
    \/ \E s \in 1..Len(conns) :
          (Quiet \/ Echoing) /\ conns[s].dialer \in CastNode /\ LinkFail(s)
    \/ \E n \in CastNode : Quiet /\ nCalls = 0 /\ Broadcast(n)

SpecEcho == Init /\ [][EchoNext]_vars

-----------------------------------------------------------------------------
(* Degree maintenance: the checkDegree goroutines of A run, the host of A
   dials B when the mesh is quiet and changes the degree of A at any moment. *)

\* the dials of the hosts: <<dialer, host>>
DegreeDial == {<<"A", "B">>}

\* the nodes whose hosts call SetDegree
DegreeNode == {"A"}

DegreeNext ==
    \/ TopoStep
    \/ \E t \in DOMAIN tasks : NodeOf(t) \in DegreeNode /\ CheckStart(t)
    \/ \E t \in DOMAIN tasks : NodeOf(t) \in DegreeNode /\ CheckSolicit(t)
    \/ \E t \in DOMAIN tasks : NodeOf(t) \in DegreeNode /\ CheckWake(t)
    \/ \E t \in DOMAIN tasks : NodeOf(t) \in DegreeNode /\ CheckExit(t)
    \/ \E d \in DegreeDial : Quiet /\ DialConnect(d[1], d[2], FALSE)
    \/ \E n \in DegreeNode : \E d \in 0..MaxDegree : SetDegree(n, d)

SpecDegree == Init /\ [][DegreeNext]_vars

-----------------------------------------------------------------------------
(* Set calls: the hosts build the mesh when it is quiet; the host of A calls
   Set when the mesh is quiet or while an earlier Set call has not returned. *)

\* the recipient lists of the Set calls
Recipients == {<<"B">>, <<"C">>, <<"Z">>, <<"B", "Z">>}

\* a Set call has not returned
Setting == \E t \in DOMAIN tasks : t[1] = "set"

SetNext ==
    \/ TopoStep
    \/ SetStep
    \/ \E d \in CastDial : Quiet /\ DialConnect(d[1], d[2], FALSE)
    \/ \E n \in CastNode : \E r \in Recipients : (Quiet \/ Setting) /\ SetCall(n, r)

SpecSet == Init /\ [][SetNext]_vars

-----------------------------------------------------------------------------
(* intersect on its own: node A is handed an input map in a mesh state, both
   drawn from the adjacency maps over the nodes. *)

\* the sorted lists over a non-empty set of names other than k
Rows(k) ==
    {SelectSeq(<<"A", "B", "C">>, LAMBDA x : x \in S) : S \in (SUBSET (Node \ {k})) \ {{}}}

\* the adjacency maps over the nodes, rows sorted and non-empty
Meshes ==
    UNION {{f \in [K -> UNION {Rows(k) : k \in K}] : \A k \in K : f[k] \in Rows(k)}
           : K \in SUBSET Node}

\* the state before intersect(m) at node A, kept for the postcondition
Pre == CHOOSE r \in results : r.op = "intersect"

InitIntersect ==
    /\ alive = [n \in Node |-> TRUE]
    /\ degree = [n \in Node |-> 1]
    /\ \E m0 \in Meshes : mesh = [n \in Node |-> IF n = "A" THEN m0 ELSE EmptyMap]
    /\ setSequences = [n \in Node |-> IF n = "A" THEN [k \in Node |-> 1]
                                      ELSE [k \in {n} |-> 1]]
    /\ broadcastSequences = [n \in Node |-> IF n = "A" THEN [k \in Node |-> 1]
                                            ELSE [k \in {n} |-> 1]]
    /\ routes = [n \in Node |-> [k \in {} |-> "-"]]
    /\ clients = [n \in Node |-> [k \in {} |-> 0]]
    /\ receive = [n \in Node |-> <<>>]
    /\ ackChan = [n \in Node |-> EmptyBag]
    /\ errors = [n \in Node |-> {}]
    /\ meshLock = [n \in Node |-> NoTask]
    /\ clientLock = [n \in Node |-> NoTask]
    /\ sequenceLock = [n \in Node |-> NoTask]
    /\ setLock = [n \in Node |-> NoTask]
    /\ \E m \in Meshes \ {EmptyMap} :
          tasks = [t \in {Router(n) : n \in Node} |->
                      IF t = Router("A")
                      THEN [NoLocals EXCEPT !.pc = "iMesh", !.ret = "returned", !.m = m]
                      ELSE [NoLocals EXCEPT !.pc = "idle"]]
    /\ isect = [n \in Node |-> IdleIsect]
    /\ messagePump = [n \in Node |-> <<>>]
    /\ net = EmptyBag
    /\ bsend = EmptyBag
    /\ hm = EmptyBag
    /\ fsend = EmptyBag
    /\ conns = <<>>
    /\ acceptor = [n \in Node |-> 0]
    /\ nCalls = 0
    /\ nFaults = 0
    /\ results = {[op |-> "intersect", n |-> "A", k |-> 0,
                   val |-> [mesh |-> mesh["A"], m |-> tasks[Router("A")].m]]}
    /\ issued = [n \in Node |-> [set |-> <<>>, broadcast |-> <<>>]]

IntersectNext ==
    \/ \E t \in DOMAIN tasks : IntersectLockMesh(t)
    \/ \E n \in Node : \E k \in Name : IsectRow(n, k)
    \/ \E n \in Node : IsectDelete(n)
    \/ \E n \in Node : IsectLock(n)
    \/ \E t \in DOMAIN tasks : IntersectReturn(t)

SpecIntersect == InitIntersect /\ [][IntersectNext]_vars

-----------------------------------------------------------------------------
(* union as a function of the mesh, the registry and its argument: node A in
   any adjacency map and with any registry over its peers calls union(m), and
   when that call has returned calls union(m) again. *)

\* the registries of node A: the sets of peers it holds a session with
Registries == SUBSET (Node \ {"A"})

\* the peers of a registry, in the order their sessions were dialed
Peers(reg) == SelectSeq(<<"B", "C">>, LAMBDA x : x \in reg)

\* the index of peer p in Peers(reg)
SessionOf(reg, p) == CHOOSE i \in 1..Len(Peers(reg)) : Peers(reg)[i] = p

\* the state of node A when union(m) was called first, and when it returned
UnionPre == CHOOSE r \in results : r.op = "union" /\ r.k = 0
UnionOnce == CHOOSE r \in results : r.op = "union" /\ r.k = 1

InitUnion ==
    /\ alive = [n \in Node |-> TRUE]
    /\ degree = [n \in Node |-> 1]
    /\ \E m0 \in Meshes : mesh = [n \in Node |-> IF n = "A" THEN m0 ELSE EmptyMap]
    /\ setSequences = [n \in Node |-> IF n = "A" THEN [k \in Node |-> 1]
                                      ELSE [k \in {n} |-> 1]]
    /\ broadcastSequences = [n \in Node |-> IF n = "A" THEN [k \in Node |-> 1]
                                            ELSE [k \in {n} |-> 1]]
    /\ routes = [n \in Node |-> [k \in {} |-> "-"]]
    /\ \E reg \in Registries :
          /\ clients = [n \in Node |->
                           IF n = "A" THEN [p \in reg |-> SessionOf(reg, p)]
                           ELSE IF n \in reg THEN [k \in {"A"} |-> SessionOf(reg, n)]
                           ELSE [k \in {} |-> 0]]
          /\ conns = [i \in 1..Len(Peers(reg)) |->
                         [dialer |-> "A", host |-> Peers(reg)[i], sol |-> FALSE,
                          open |-> TRUE, stage |-> "dialed",
                          hs |-> [Command |-> HANDSHAKE_SOLICITED,
                                  Source |-> Peers(reg)[i], Body |-> EmptyMap],
                          result |-> "ok"]]
    /\ receive = [n \in Node |-> <<>>]
    /\ ackChan = [n \in Node |-> EmptyBag]
    /\ errors = [n \in Node |-> {}]
    /\ meshLock = [n \in Node |-> NoTask]
    /\ clientLock = [n \in Node |-> NoTask]
    /\ sequenceLock = [n \in Node |-> NoTask]
    /\ setLock = [n \in Node |-> NoTask]
    /\ \E m \in Meshes \ {EmptyMap} :
          tasks = [t \in {Router(n) : n \in Node} |->
                      IF t = Router("A")
                      THEN [NoLocals EXCEPT !.pc = "uMesh", !.ret = "once", !.m = m]
                      ELSE [NoLocals EXCEPT !.pc = "idle"]]
    /\ isect = [n \in Node |-> IdleIsect]
    /\ messagePump = [n \in Node |-> <<>>]
    /\ net = EmptyBag
    /\ bsend = EmptyBag
    /\ hm = EmptyBag
    /\ fsend = EmptyBag
    /\ acceptor = [n \in Node |-> 0]
    /\ nCalls = 0
    /\ nFaults = 0
    /\ results = {[op |-> "union", n |-> "A", k |-> 0,
                   val |-> [mesh |-> mesh["A"], set |-> setSequences["A"],
                            broadcast |-> broadcastSequences["A"]]]}
    /\ issued = [n \in Node |-> [set |-> <<>>, broadcast |-> <<>>]]

\* the first union(m) has returned: the caller calls union(m) again
UnionAgain(t) ==
    /\ At(t, "once")
    /\ tasks' = [tasks EXCEPT ![t].pc = "uMesh", ![t].ret = "twice"]
    /\ results' = results \cup
                      {[op |-> "union", n |-> NodeOf(t), k |-> 1,
                        val |-> [mesh |-> mesh[NodeOf(t)],
                                 set |-> setSequences[NodeOf(t)],
                                 broadcast |-> broadcastSequences[NodeOf(t)]]]}
    /\ UNCHANGED <<nodeVars, topoVars, routes, clients, lockVars, chanVars, isect, net,
                   goVars, connVars, nCalls, nFaults, issued>>

UnionNext ==
    \/ \E t \in DOMAIN tasks : UnionLockMesh(t)
    \/ \E t \in DOMAIN tasks : UnionMergeStep(t)
    \/ \E t \in DOMAIN tasks : UnionAgain(t)
    \/ \E n \in Node : \E k \in Name : IsectRow(n, k)
    \/ \E n \in Node : IsectDelete(n)
    \/ \E n \in Node : IsectLock(n)
    \/ \E t \in DOMAIN tasks : UnionConflict(t)

SpecUnion == InitUnion /\ [][UnionNext]_vars

-----------------------------------------------------------------------------
(* The router as a function of the sequence tables and of the message it
   takes: node A, in session with B, has one message of B in messagePump; the
   last ids A saw from B and the id of the message are drawn. *)

\* the largest last-seen id and the largest message id drawn
MaxSeen == 2
MaxID == 3

\* a sequence table of A whose last id seen from B is last (0: none)
SeenTable(last) ==
    IF last = 0 THEN [k \in {"A"} |-> 1]
    ELSE [k \in {"A", "B"} |-> IF k = "A" THEN 1 ELSE last]

\* the mesh of A and B, and the map B sends when C has joined it
MeshAB == [k \in {"A", "B"} |-> IF k = "A" THEN <<"B">> ELSE <<"A">>]
MeshBC == [k \in {"B", "C"} |-> IF k = "B" THEN <<"C">> ELSE <<"B">>]

\* the messages of B that reach A's router
Incoming ==
    {[NoMsg EXCEPT !.MessageType = ty, !.Source = "B", !.CurrentRoute = <<"B">>,
                   !.ID = id, !.Command = cmd, !.Recipients = rc,
                   !.Body = IF cmd = UNION_CMD THEN MeshBC ELSE EmptyMap] :
       ty \in {SET, BROADCAST}, id \in 0..MaxID, cmd \in {MESSAGE, UNION_CMD},
       rc \in {<<"A">>, <<"C">>, <<"A", "C">>}}

InitRouter ==
    /\ alive = [n \in Node |-> TRUE]
    /\ degree = [n \in Node |-> 1]
    /\ mesh = [n \in Node |-> IF n = "C" THEN EmptyMap ELSE MeshAB]
    /\ \E last \in 0..MaxSeen :
          setSequences = [n \in Node |-> IF n = "A" THEN SeenTable(last)
                                         ELSE [k \in {n} |-> 1]]
    /\ \E last \in 0..MaxSeen :
          broadcastSequences = [n \in Node |-> IF n = "A" THEN SeenTable(last)
                                               ELSE [k \in {n} |-> 1]]
    /\ routes = [n \in Node |-> [k \in {} |-> "-"]]
    /\ clients = [n \in Node |->
                     IF n = "A" THEN [k \in {"B"} |-> 1]
                     ELSE IF n = "B" THEN [k \in {"A"} |-> 1]
                     ELSE [k \in {} |-> 0]]
    /\ conns = <<[dialer |-> "A", host |-> "B", sol |-> FALSE, open |-> TRUE,
                  stage |-> "dialed",
                  hs |-> [Command |-> HANDSHAKE_SOLICITED, Source |-> "B",
                          Body |-> EmptyMap],
                  result |-> "ok"]>>
    /\ receive = [n \in Node |-> <<>>]
    /\ ackChan = [n \in Node |-> EmptyBag]
    /\ errors = [n \in Node |-> {}]
    /\ meshLock = [n \in Node |-> NoTask]
    /\ clientLock = [n \in Node |-> NoTask]
    /\ sequenceLock = [n \in Node |-> NoTask]
    /\ setLock = [n \in Node |-> NoTask]
    /\ tasks = [t \in {Router(n) : n \in Node} |-> [NoLocals EXCEPT !.pc = "idle"]]
    /\ isect = [n \in Node |-> IdleIsect]
    /\ \E m \in Incoming :
          messagePump = [n \in Node |-> IF n = "A" THEN <<m>> ELSE <<>>]
    /\ net = EmptyBag
    /\ bsend = EmptyBag
    /\ hm = EmptyBag
    /\ fsend = EmptyBag
    /\ acceptor = [n \in Node |-> 0]
    /\ nCalls = 0
    /\ nFaults = 0
    /\ results = {}
    /\ issued = [n \in Node |-> [set |-> <<>>, broadcast |-> <<>>]]

RouterNext ==
    \/ \E n \in Node : Route(n)
    \/ \E n \in Node : \E x \in DOMAIN hm : HandleMsg(n, x)
    \/ \E n \in Node : \E b \in DOMAIN bsend : ForwardSend(n, b)
    \/ \E t \in DOMAIN tasks : UnionLockMesh(t)
    \/ \E t \in DOMAIN tasks : UnionMergeStep(t)

SpecRouter == InitRouter /\ [][RouterNext]_vars

-----------------------------------------------------------------------------
(* Dials that are refused: a host dials itself or a peer it has, and
   broadcastListener answers the solicitation of a node whose registry has
   filled since.  One dial at a time. *)

\* the calls of Dial: <<dialer, host>>
DialCalls == {<<"A", "A">>, <<"A", "B">>, <<"C", "B">>}

\* the solicitations answered: <<dialer, soliciting host>>
Solicits == {<<"A", "B">>, <<"C", "B">>}

DialNext ==
    \/ TopoStep
    \/ \E d \in DialCalls : Quiet /\ DialConnect(d[1], d[2], FALSE)
    \/ \E d \in Solicits : Quiet /\ DialConnect(d[1], d[2], TRUE)

SpecDial == Init /\ [][DialNext]_vars

-----------------------------------------------------------------------------
(* Topology changes one at a time: a host dials, hangs up or is killed only
   when the mesh is quiet. *)

\* the dials of the hosts: <<dialer, host>>
TopoDial == {<<"A", "B">>, <<"C", "B">>, <<"A", "C">>}

TopoNext ==
    \/ TopoStep
    \/ TeardownStep
    \/ \E t \in DOMAIN tasks : IntersectReturn(t)
    \/ \E t \in DOMAIN tasks : UnionConflict(t)
    \/ \E t \in DOMAIN tasks : \E h \in DOMAIN tasks : ReaderHungUp(t, h)
    \/ \E d \in TopoDial : Quiet /\ DialConnect(d[1], d[2], FALSE)
    \/ \E n \in Node, p \in Node : n # p /\ Quiet /\ HangupCall(n, p)
    \/ \E n \in Node : Quiet /\ Kill(n)

SpecTopo == Init /\ [][TopoNext]_vars

-----------------------------------------------------------------------------
(* Properties of the topology and of the sequence tables. *)

StrictlyIncreasing(q) == \A i \in 1..Len(q) : \A j \in 1..Len(q) : i < j => q[i] < q[j]

\* C1: in every quiescent state the neighbor list mesh[self] of every running
\* node is exactly the set of the peer names in its registry.
C1_MeshIsRegistry ==
    Quiet => \A n \in Node : alive[n] => Range(Get(mesh[n], n)) = DOMAIN clients[n]

\* C5: the own counters of a node are never removed and never decrease, and
\* the ids a node assigns in one class are strictly increasing.
C5_OwnCountersGrow ==
    [][\A n \in Node :
          /\ n \in DOMAIN setSequences'[n] /\ n \in DOMAIN broadcastSequences'[n]
          /\ setSequences'[n][n] >= setSequences[n][n]
          /\ broadcastSequences'[n][n] >= broadcastSequences[n][n]
          /\ StrictlyIncreasing(issued'[n].set)
          /\ StrictlyIncreasing(issued'[n].broadcast)]_vars

\* the line A-B-C was built and has converged, B was killed, and the
\* teardowns at A and at C are over
LineWithoutB ==
    /\ Quiet /\ ~alive["B"] /\ alive["A"] /\ alive["C"]
    /\ Len(conns) = 2
    /\ \A s \in 1..2 : conns[s].host = "B" /\ conns[s].stage = "dialed"
    /\ {conns[1].dialer, conns[2].dialer} = {"A", "C"}

\* C7: in the line A-B-C, once B is killed and the mesh has converged, A and C
\* have removed B from their registries and their meshes are the empty map.
C7_EmptyAfterKill ==
    LineWithoutB =>
        /\ clients["A"] = EmptyMap /\ clients["C"] = EmptyMap
        /\ mesh["A"] = EmptyMap /\ mesh["C"] = EmptyMap

\* C6: a session that is installed in a registry and whose connection is
\* open is never replaced by the session of a later handshake.
C6_NoOverwrite ==
    [][\A n \in Node : \A p \in DOMAIN clients[n] :
          conns[clients[n][p]].open =>
              p \in DOMAIN clients'[n] /\ clients'[n][p] = clients[n][p]]_vars

\* C10: whenever no goroutine is inside union or intersect, every key of the
\* adjacency map of a node has a non-empty neighbor list.
C10_NoEmptyRow ==
    \A n \in Node : meshLock[n] = NoTask =>
        \A k \in DOMAIN mesh[n] : mesh[n][k] # <<>>

-----------------------------------------------------------------------------
(* Properties of the deliveries. *)

\* the positions of receive[p] that hold the message of call k of node n
Delivered(p, n, k) ==
    {i \in 1..Len(receive[p]) : receive[p][i].Source = n /\ receive[p][i].Data = k}

\* the ids of the messages of class c and origin o on the receive stream of p
IdsOf(p, o, c) ==
    LET q == SelectSeq(receive[p], LAMBDA m : m.Source = o /\ m.MessageType = c)
    IN [i \in 1..Len(q) |-> q[i].ID]

\* C3: with no failure, once nothing is in flight, every node the mesh
\* connected to the origin of a Broadcast call has the payload on its receive
\* stream exactly once.
C3_BroadcastOnce ==
    (Quiet /\ nFaults = 0) =>
        \A r \in results : r.op = "Broadcast" =>
            \A p \in Range(r.val) : Cardinality(Delivered(p, r.n, r.k)) = 1

\* C4: on every receive stream the messages of one origin and one class are
\* in strictly increasing order of their ids.
C4_InOrder ==
    \A p \in Node : \A o \in Node : \A c \in {SET, BROADCAST} :
        StrictlyIncreasing(IdsOf(p, o, c))

\* call k of Set at node n has returned with the error list v (nil is <<>>)
Returned(n, k, v) ==
    \E r \in results : r.op = "Set" /\ r.n = n /\ r.k = k /\ r.val = v

C8_NoRouteReturns ==
    Stable =>
        \A c \in results : (c.op = "SetCall" /\ "Z" \in Range(c.val)) =>
            /\ \E r \in results : r.op = "Set" /\ r.n = c.n /\ r.k = c.k
                                  /\ Count("Z", r.val) = 1
            /\ \E r \in results : r.op = "setSend" /\ r.n = c.n /\ r.k = c.k
                                  /\ Count("Z", r.val.noroute) = 1
                                  /\ \A x \in r.val.sent : "Z" \notin Range(x[2])

-----------------------------------------------------------------------------
(* Properties of intersect. *)

\* intersect(m) at node A has returned
IntersectReturned == At(Router("A"), "returned")

\* the input empties row k: every name of the row is listed
Emptied(k) == Range(Get(Pre.val.mesh, k)) \subseteq Range(Pre.val.m[k])

\* C9: when intersect(m) has returned, no name listed in a row of m is left in
\* that row of the mesh; a key whose row was emptied is absent from the mesh
\* and from both sequence tables; a row that was not emptied keeps its other
\* names, and the rows of the keys that m does not have are unchanged.
C9_IntersectPost ==
    IntersectReturned =>
        /\ \A k \in DOMAIN Pre.val.m :
              /\ Range(Get(mesh["A"], k)) \cap Range(Pre.val.m[k]) = {}
              /\ Emptied(k) => /\ k \notin DOMAIN mesh["A"]
                               /\ k \notin DOMAIN setSequences["A"]
                               /\ k \notin DOMAIN broadcastSequences["A"]
              /\ ~Emptied(k) => /\ k \in DOMAIN mesh["A"]
                                /\ mesh["A"][k] = SelectSeq(Pre.val.mesh[k],
                                       LAMBDA x : x \notin Range(Pre.val.m[k]))
        /\ \A k \in DOMAIN Pre.val.mesh \ DOMAIN Pre.val.m :
              k \in DOMAIN mesh["A"] /\ mesh["A"][k] = Pre.val.mesh[k]
        /\ DOMAIN mesh["A"] \subseteq DOMAIN Pre.val.mesh

\* intersect has returned after it emptied a row of the mesh and removed a
\* name from another row that it did not empty
C9_Witness ==
    /\ IntersectReturned
    /\ \E k \in DOMAIN Pre.val.m : Emptied(k) /\ k \in DOMAIN Pre.val.mesh
    /\ \E k \in DOMAIN Pre.val.m :
          ~Emptied(k) /\ Range(Pre.val.m[k]) \cap Range(Pre.val.mesh[k]) # {}

-----------------------------------------------------------------------------
(* Properties of union, of the router and of the handshake. *)

\* C11: whenever no goroutine is inside union or intersect at a node, every
\* neighbor list of its adjacency map is sorted ascending and has no name
\* twice.
C11_SortedRows ==
    \A n \in Node : meshLock[n] = NoTask =>
        \A k \in DOMAIN mesh[n] : IsSorted(mesh[n][k])

\* C dialed B before A did, so dial appended "A" after "C" to the row of B,
\* and the unions are over
C11_Witness ==
    /\ Len(conns) = 2 /\ conns[1].dialer = "C" /\ conns[2].dialer = "A"
    /\ meshLock["A"] = NoTask
    /\ "B" \in DOMAIN mesh["A"] /\ mesh["A"]["B"] = <<"A", "C">>

\* C12: when the second of two calls union(m) in a row has returned, the
\* adjacency map and both sequence tables are what they were when the first
\* call returned.
C12_UnionIdempotent ==
    At(Router("A"), "twice") =>
        /\ mesh["A"] = UnionOnce.val.mesh
        /\ setSequences["A"] = UnionOnce.val.set
        /\ broadcastSequences["A"] = UnionOnce.val.broadcast

\* both calls have returned, and the first one changed a row the mesh had
C12_Witness ==
    /\ At(Router("A"), "twice")
    /\ \E k \in DOMAIN UnionPre.val.mesh :
          Len(UnionOnce.val.mesh[k]) > Len(UnionPre.val.mesh[k])

\* the id of m is not above the last id node n saw from m's source
Stale(n, m) ==
    IF m.MessageType = SET THEN m.ID <= GetSeq(setSequences[n], m.Source)
    ELSE m.ID <= GetSeq(broadcastSequences[n], m.Source)

\* C13: a step in which the router of a node takes a SET or BROADCAST whose id
\* is not above the last id seen from its source changes nothing but the
\* router's queue: the sequence tables, the mesh, the registry, the receive
\* and ack streams stay as they are, no goroutine is started and nothing is
\* sent.
C13_StaleDropped ==
    [][\A n \in Node :
          (/\ At(Router(n), "idle") /\ messagePump[n] # <<>>
           /\ messagePump'[n] = Tail(messagePump[n])
           /\ Stale(n, Head(messagePump[n])))
          => UNCHANGED <<setSequences, broadcastSequences, mesh, clients, routes,
                         receive, ackChan, errors, tasks, net, bsend, hm, fsend,
                         lockVars>>]_vars

\* A's router has taken the message of B, A has seen ids of B, and nothing
\* was delivered, started or sent
C13_Witness ==
    /\ messagePump["A"] = <<>> /\ At(Router("A"), "idle")
    /\ "B" \in DOMAIN setSequences["A"] /\ "B" \in DOMAIN broadcastSequences["A"]
    /\ receive["A"] = <<>> /\ mesh["A"] = MeshAB
    /\ net = EmptyBag /\ bsend = EmptyBag /\ hm = EmptyBag /\ fsend = EmptyBag

\* the dial of connection s has the handshake of a host it must refuse: the
\* host is the dialer itself, or is in the dialer's registry, or answered
\* HANDSHAKE to a solicited dial
MustRefuse(s) ==
    \/ conns[s].hs.Source = conns[s].dialer
    \/ conns[s].hs.Source \in DOMAIN clients[conns[s].dialer]
    \/ conns[s].sol /\ conns[s].hs.Command = HANDSHAKE

\* C14: the step in which dial decides on a handshake it must refuse closes
\* the connection and changes no registry, mesh or sequence table, starts no
\* goroutine and sends nothing; and a refused connection is in no registry
\* afterwards.
C14_RefusedDial ==
    [][\A s \in 1..Len(conns) :
          /\ (conns[s].stage = "hs" /\ conns'[s].stage # "hs" /\ MustRefuse(s))
             => /\ conns'[s].stage = "rejected" /\ ~conns'[s].open
                /\ UNCHANGED <<clients, mesh, setSequences, broadcastSequences, routes,
                               tasks, net, bsend, issued>>
          /\ conns[s].stage = "rejected"
             => /\ conns'[s] = conns[s]
                /\ \A n \in Node : \A k \in DOMAIN clients'[n] : clients'[n][k] # s
                /\ \A t \in DOMAIN tasks' : t[1] \in {"reader", "dial"} => t[3] # s]_vars

\* a dial of a peer already in the registry and a solicited dial answered
\* HANDSHAKE have both been refused
C14_Witness ==
    /\ \E s \in 1..Len(conns) : conns[s].stage = "rejected" /\ conns[s].result = "dup"
    /\ \E s \in 1..Len(conns) :
          conns[s].stage = "rejected" /\ conns[s].result = "unsolicited"

\* C15: once no goroutine has a step left, no call of union that found a name
\* of mesh[self] missing from the registry is still inside union: it has
\* returned, and meshLock and clientLock are free.
C15_ConflictUnionReturns ==
    Stable =>
        \A t \in DOMAIN tasks :
            tasks[t].pc \in {"uIsect", "uSend"} =>
                /\ meshLock[NodeOf(t)] # t
                /\ clientLock[NodeOf(t)] # t

\* C16: once no goroutine has a step left, every receiveHandler whose hangup
\* fired has gone through its teardown: none is still before the removal of
\* its client, inside intersect, or before its INTERSECTION broadcast.
C16_TeardownCompletes ==
    Stable =>
        \A t \in DOMAIN tasks :
            (t[1] = "reader" /\ alive[NodeOf(t)]) => tasks[t].pc \in {"start", "loop"}

\* C17: the lock a goroutine is about to acquire comes, in the order meshLock,
\* clientLock, sequenceLock, setLock, after every lock it holds: none acquires
\* an earlier lock while it holds a later one, none acquires a lock it holds.
C17_LockOrder ==
    \A t \in DOMAIN tasks : \A w \in LockWanted(t) : \A h \in LocksHeld(t) : h < w

\* a session between x and y was installed by a dial
HadSession(x, y) ==
    \E s \in 1..Len(conns) :
        {conns[s].dialer, conns[s].host} = {x, y} /\ conns[s].result = "ok"

\* C18: the route of every message on a receive stream starts with the source
\* of the message, ends with the node that receives it, holds no name twice,
\* and any two names next to each other in it are nodes that had a session.
C18_RouteRecorded ==
    \A n \in Node : \A i \in 1..Len(receive[n]) :
        LET m == receive[n][i]
            r == m.CurrentRoute
        IN /\ Len(r) >= 2 /\ r[1] = m.Source /\ r[Len(r)] = n
           /\ \A j \in 1..Len(r) : \A k \in 1..Len(r) : r[j] = r[k] => j = k
           /\ \A j \in 1..(Len(r) - 1) : HadSession(r[j], r[j + 1])

\* C19: whenever the registry of a node is smaller than its degree, a
\* checkDegree goroutine of the node is soliciting or waiting for degreeLock,
\* or a receiveHandler of the node is in the teardown that ends by starting
\* one: without one no solicitation is emitted until the next peer is lost.
C19_SolicitsBelowDegree ==
    \A n \in Node :
        (alive[n] /\ Cardinality(DOMAIN clients[n]) < degree[n]) =>
            \E t \in DOMAIN tasks :
                /\ NodeOf(t) = n
                /\ \/ t[1] = "degree"
                   \/ t[1] = "reader" /\ tasks[t].pc \notin {"start", "loop"}

\* C20: once intersect(m) at node A has no step left, it has returned, and
\* meshLock and sequenceLock of A are free.
C20_IntersectTerminates ==
    (~ENABLED IntersectNext) =>
        /\ IntersectReturned
        /\ meshLock["A"] = NoTask /\ sequenceLock["A"] = NoTask

-----------------------------------------------------------------------------
(* Hangup against a closing session: the host of A dials B once, the link
   of the session fails at any moment, and the host of A calls
   Hangup: of a peer in its registry once, at any moment, and of a name that
   is not in its registry when the mesh is quiet. *)

HangDial == {<<"A", "B">>}

\* the nodes whose hosts call Hangup, and the names they pass
HangNode == {"A"}
HangPeer == {"B", "C"}

\* a Hangup call that found its client has not returned
HangupPending(n) == \E h \in DOMAIN tasks : h[1] = "hangup" /\ NodeOf(h) = n

\* the host of n has called Hangup of a peer that was in the registry
HungUp(n) ==
    \/ HangupPending(n)
    \/ \E r \in results : r.op = "Hangup" /\ r.n = n /\ r.val = <<>>

\* the steps of the goroutines, the send of Hangup among them
HangSteps ==
    \/ TopoStep
    \/ TeardownStep
    \/ \E t \in DOMAIN tasks : \E h \in DOMAIN tasks : ReaderHungUp(t, h)

HangNext ==
    \/ HangSteps
    \/ \E d \in HangDial : conns = <<>> /\ DialConnect(d[1], d[2], FALSE)
    \/ \E s \in 1..Len(conns) : LinkFail(s)
    \/ \E n \in HangNode, p \in HangPeer :
          /\ nCalls < MaxCalls
          /\ IF p \in DOMAIN clients[n] THEN ~HungUp(n) ELSE Quiet
          /\ nCalls' = nCalls + 1
          /\ Hangup(n, p, nCalls + 1)
          /\ UNCHANGED nFaults

SpecHangup == Init /\ [][HangNext]_vars

\* C21: once no goroutine has a step left, every Hangup call has returned (so
\* none holds clientLock), every session whose reader left its select loop is
\* out of the registry, and the Hangup calls of a name that was not in the
\* registry returned the error.
C21_HangupReturns ==
    (~ENABLED HangSteps) =>
        \A n \in HangNode :
            /\ ~HangupPending(n)
            /\ \A t \in DOMAIN tasks :
                  (t[1] = "reader" /\ NodeOf(t) = n /\ tasks[t].pc \notin {"start", "loop"})
                      => \/ tasks[t].peer \notin DOMAIN clients[n]
                         \/ clients[n][tasks[t].peer] # tasks[t].s
            /\ \A r \in results :
                  (r.op = "Hangup" /\ r.n = n /\ r.val # <<>>) => r.val = <<"no such client">>

-----------------------------------------------------------------------------
(* SETs through an intermediate node: the hosts build the chain A - B - C when
   the mesh is quiet; the hosts of A and of C call Set to the far end of the
   chain, when the mesh is quiet or while an earlier Set call has not
   returned, so that B forwards for both. *)

\* the Set calls of the hosts: <<caller, recipients>>
FwdCalls == {<<"A", <<"C">>>>, <<"C", <<"A">>>>}

\* the steps of the goroutines
FwdSteps == TopoStep \/ SetStep

FwdNext ==
    \/ FwdSteps
    \/ \E d \in CastDial : Quiet /\ DialConnect(d[1], d[2], FALSE)
    \/ \E c \in FwdCalls : (Quiet \/ Setting) /\ SetCall(c[1], c[2])

SpecForward == Init /\ [][FwdNext]_vars

\* C22: once no goroutine has a step left, no setSend goroutine that a router
\* started for a non-empty onward partition is still waiting for setLock:
\* each has passed its message on to the next hops.
C22_ForwardsTransmitted ==
    (~ENABLED FwdSteps) =>
        \A f \in DOMAIN fsend : f.msg.Recipients = <<>>

-----------------------------------------------------------------------------
(* Duplicates of a broadcast. *)

\* C23: no receive stream holds the same broadcast (the same source, id and
\* payload) at two positions: the router accepts a broadcast, which enqueues
\* and forwards it, at most once.
C23_NoDuplicateBroadcast ==
    \A n \in Node : \A i \in 1..Len(receive[n]) : \A j \in 1..Len(receive[n]) :
        (/\ receive[n][i].MessageType = BROADCAST
         /\ receive[n][j].MessageType = BROADCAST
         /\ receive[n][i].Source = receive[n][j].Source
         /\ receive[n][i].ID = receive[n][j].ID
         /\ receive[n][i].Data = receive[n][j].Data) => i = j

=============================================================================
